---- MODULE Spec2Model ----
(***************************************************************************)
(* Model of the Linked Data Signature suite of jsonld-signatures:          *)
(* LinkedDataSignature (constructor, createProof, verifyProof,             *)
(* canonizeProof, createVerifyData, getVerificationMethod) as bound by the *)
(* Ed25519Signature2018 variant.  One suite instance is constructed, one   *)
(* proof is created (or received from elsewhere), the caller may alter     *)
(* what it holds, and the proof is verified.  Every `await` of the source  *)
(* is one step of the model.                                               *)
(***************************************************************************)
EXTENDS Integers, Sequences, FiniteSets, TLC

VARIABLES
  suite,        \* `this`: the configuration stored by the constructor
  ctorArgs,     \* the options object the constructor was called with
  ctorError,    \* the error the constructor threw ("" when none)
  resolver,     \* the verification-method documents behind documentLoader
  document,     \* the caller's document
  callerProof,  \* the proof the caller holds
  tampered,     \* what the caller changed after the proof was created
  pc,           \* position of the running call
  op,           \* the running call: "create", "verify" or ""
  proof,        \* createProof's local `proof`
  verifyData,   \* the local `verifyData` of the running call
  method,       \* verifyProof's local `verificationMethod`
  result,       \* how the last call ended: returned value or thrown error
  calls,        \* the collaborators invoked by the running call, in order
  other         \* the locals of a second caller's createProof on the same suite

vars == <<suite, ctorArgs, ctorError, resolver, document, callerProof,
          tampered, pc, op, proof, verifyData, method, result, calls, other>>

(***************************************************************************)
(* JavaScript values.  A value is a record of its type tag t and payload   *)
(* v; an object is modelled by its `id` ("" when it has none).             *)
(***************************************************************************)
Undefined == [t |-> "undefined", v |-> ""]
Null == [t |-> "null", v |-> ""]
Str(s) == [t |-> "string", v |-> s]
Num(s) == [t |-> "number", v |-> s]
Obj(id) == [t |-> "object", v |-> id]
DateObj(ms) == [t |-> "date", v |-> ms]
InvalidDate == [t |-> "date", v |-> -1]

\* !x
Falsy(x) == \/ x.t \in {"undefined", "null"}
            \/ x.t = "string" /\ x.v = ""

\* typeof x
TypeOf(x) == CASE x.t \in {"object", "null", "date"} -> "object"
               [] OTHER -> x.t

\* x.id
IdOf(x) == IF x.t = "object" /\ x.v # "" THEN Str(x.v) ELSE Undefined

\* obj.f, for an object modelled as a function from its field names
Get(obj, f) == IF f \in DOMAIN obj THEN obj[f] ELSE Undefined

\* obj.f = x
Put(obj, f, x) == [g \in DOMAIN obj \cup {f} |-> IF g = f THEN x ELSE obj[g]]

\* delete obj.f
Delete(obj, f) == [g \in DOMAIN obj \ {f} |-> obj[g]]

EmptyObject == [g \in {} |-> Undefined]

(***************************************************************************)
(* Bounds of the model.                                                    *)
(***************************************************************************)
\* `new Date()` reads a time whose whole seconds are in 1..MaxSec
MaxSec == 2

(***************************************************************************)
(* Dates.                                                                  *)
(***************************************************************************)
\* util.w3cDate: ISO-8601, UTC, the milliseconds cut off
w3cDate(date) ==
  Str("1970-01-01T00:00:0" \o ToString(date.v \div 1000) \o "Z")

\* the strings Date understands, with the time each one names
ParsableDates == {w3cDate(DateObj(1000 * s)).v : s \in 0..9}
DateParse(s) == CHOOSE ms \in {1000 * k : k \in 0..9} : w3cDate(DateObj(ms)).v = s

\* new Date(x)
NewDate(x) ==
  CASE x.t = "date" -> x
    [] x.t = "null" -> DateObj(0)
    [] x.t = "string" /\ x.v \in ParsableDates -> DateObj(DateParse(x.v))
    [] OTHER -> InvalidDate

\* isNaN(date)
IsNaN(date) == date.v = -1

\* the times `new Date()` may read
ClockReadings == {1000 * s + 500 : s \in 1..MaxSec}

(***************************************************************************)
(* The collaborators: canonicalizer, digest, signer and verifier.          *)
(***************************************************************************)
SECURITY_CONTEXT_URL == Str("https://w3id.org/security/v2")

\* the property order of the canonical serialization
FieldOrder == <<"@context", "created", "creator", "jws", "name", "proofPurpose",
                "proofValue", "signatureValue", "type", "verificationMethod">>

\* jsonld.canonize: the properties of the input, serialized in a fixed order
\* whatever order the object holds them in
JsonldCanonize(input) ==
  LET present == SelectSeq(FieldOrder, LAMBDA f : f \in DOMAIN input)
  IN  [i \in 1..Len(present) |-> <<present[i], input[present[i]]>>]

\* util.sha256: one fixed-length block that names its preimage
sha256(bytes) == <<[digest |-> bytes]>>

\* util.concat
concat(a, b) == a \o b

\* the key the suite's signer signs with
SignerKey == "k1"

\* JwsLinkedDataSignature.sign: the proof with the signature over verifyData
\* attached as `jws`
SignProof(data, p) == Put(p, "jws", [t |-> "jws", v |-> [key |-> SignerKey, data |-> data]])

\* JwsLinkedDataSignature.verifySignature: the proof's `jws` is a signature
\* over verifyData by the key of the verification method
SignatureVerifies(data, vm, p) ==
  LET jws == Get(p, "jws")
  IN  /\ jws.t = "jws"
      /\ jws.v.key = vm.key
      /\ jws.v.data = data

(***************************************************************************)
(* The verification-method documents.                                      *)
(***************************************************************************)
KeyIds == {"k1", "k2", "k3"}

\* the node published under an identifier: its key material, and the
\* revocation marker when it has been revoked
Node(id, status) ==
  [id |-> id, key |-> id,
   revoked |-> IF status = "revoked" THEN Str("1970-01-01T00:00:00Z") ELSE Undefined]

NoNode == [id |-> "", key |-> "", revoked |-> Undefined]

\* jsonld.frame(verificationMethod, {id: verificationMethod, ...}): the first
\* node of @graph, undefined when no node has that id
Frame(identifier, res) ==
  IF identifier.t = "string" /\ identifier.v \in DOMAIN res
     /\ res[identifier.v] # "absent"
  THEN Node(identifier.v, res[identifier.v])
  ELSE NoNode

(***************************************************************************)
(* LinkedDataSignature.                                                    *)
(***************************************************************************)
Thrown(e) == [kind |-> "throw", error |-> e]
Returned(x) == [kind |-> "return", value |-> x]

NoSuite ==
  [type |-> Undefined, creator |-> Undefined, verificationMethod |-> Undefined,
   proof |-> Undefined, date |-> Undefined, useNativeCanonize |-> Undefined]

\* a constructor without the isNaN check of lines 76-78
DateUnchecked(date) == ""

\* the constructor's date check: an error message, "" when the date passes
DateError(date) ==
  IF date # Undefined /\ IsNaN(NewDate(date))
  THEN "TypeError: \"date\" is not a valid date."
  ELSE ""

\* the constructor: the thrown error, or the fields of `this`
Constructor(args) ==
  IF args.verificationMethod # Undefined /\ TypeOf(args.verificationMethod) # "string"
  THEN Thrown("TypeError: \"verificationMethod\" must be a URL string.")
  ELSE IF DateError(args.date) # ""
  THEN Thrown(DateError(args.date))
  ELSE Returned(
    [type |-> args.type, creator |-> args.creator,
     verificationMethod |-> args.verificationMethod, proof |-> args.proof,
     date |-> IF args.date # Undefined THEN NewDate(args.date) ELSE Undefined,
     useNativeCanonize |-> args.useNativeCanonize])

\* canonize
canonize(input) == JsonldCanonize(input)

\* a canonizeProof that leaves `jws` in the proof options
ProofOptionsWithJws(p) == Delete(Delete(p, "signatureValue"), "proofValue")

\* a canonizeProof that leaves `proofValue` in the proof options
ProofOptionsWithProofValue(p) == Delete(Delete(p, "jws"), "signatureValue")

\* the proof options of canonizeProof: a copy of the proof without the
\* signature-bearing fields
ProofOptions(p) == Delete(Delete(Delete(p, "jws"), "signatureValue"), "proofValue")

\* canonizeProof
canonizeProof(p) == canonize(ProofOptions(p))

\* a createVerifyData that concatenates the two digests in the other order
createVerifyDataSwapped(d, p) ==
  concat(sha256(canonize(d)), sha256(canonizeProof(p)))

\* a createVerifyData that leaves the document out
createVerifyDataOfProofOnly(d, p) ==
  concat(sha256(canonizeProof(p)), sha256(canonizeProof(p)))

\* createVerifyData, when both canonicalizations succeed
createVerifyData(d, p) ==
  LET c14nProofOptions == canonizeProof(p)
      c14nDocument == canonize(d)
  IN  concat(sha256(c14nProofOptions), sha256(c14nDocument))

\* a getVerificationMethod without the fallback to `creator` of lines 269-273
ProofIdentifierOfMethodOnly(p) ==
  LET chosen == Get(p, "verificationMethod")
  IN  IF TypeOf(chosen) = "object"
      THEN IF chosen.t = "null"
           THEN Thrown("TypeError: Cannot read properties of null (reading 'id')")
           ELSE Returned(IdOf(chosen))
      ELSE Returned(chosen)

\* getVerificationMethod, lines 267-277: the identifier taken from the proof
\* (a thrown TypeError when `.id` is read from null)
ProofIdentifier(p) ==
  LET vm == Get(p, "verificationMethod")
      chosen == IF Falsy(vm) THEN Get(p, "creator") ELSE vm
  IN  IF TypeOf(chosen) = "object"
      THEN IF chosen.t = "null"
           THEN Thrown("TypeError: Cannot read properties of null (reading 'id')")
           ELSE Returned(IdOf(chosen))
      ELSE Returned(chosen)

\* a getVerificationMethod without the revocation check of lines 300-302
getVerificationMethodUnchecked(p, res) ==
  LET identifier == ProofIdentifier(p)
  IN  IF identifier.kind = "throw" THEN identifier
      ELSE IF Falsy(identifier.value)
      THEN Thrown("No \"verificationMethod\" or \"creator\" found in proof.")
      ELSE LET framed == Frame(identifier.value, res)
           IN  IF framed = NoNode
               THEN Thrown("Verification method " \o identifier.value.v \o " not found.")
               ELSE Returned(framed)

\* getVerificationMethod, when the document loader answers
getVerificationMethod(p, res) ==
  LET identifier == ProofIdentifier(p)
  IN  IF identifier.kind = "throw" THEN identifier
      ELSE IF Falsy(identifier.value)
      THEN Thrown("No \"verificationMethod\" or \"creator\" found in proof.")
      ELSE LET framed == Frame(identifier.value, res)
           IN  IF framed = NoNode
               THEN Thrown("Verification method " \o identifier.value.v \o " not found.")
               ELSE IF framed.revoked # Undefined
               THEN Thrown("The verification method has been revoked.")
               ELSE Returned(framed)

(***************************************************************************)
(* The inputs.                                                             *)
(***************************************************************************)
SuiteType == Str("Ed25519Signature2018")

ProofTemplate ==
  [type |-> Str("RsaSignature2018"), created |-> Str("1970-01-01T00:00:00Z"),
   verificationMethod |-> Str("k1")]

\* a template of the legacy kind: a creator, and a created that is not in the
\* format of w3cDate
LegacyTemplate == [created |-> Str("1 Jan 1970"), creator |-> Str("k1")]

CtorArgs ==
  [type : {SuiteType},
   creator : {Undefined, Str("k2"), Obj("k1")},
   verificationMethod : {Undefined, Str("k1"), Str(""), Num("7")},
   proof : {Undefined, ProofTemplate, LegacyTemplate},
   date : {Undefined, Null, Str("1970-01-01T00:00:01Z"), DateObj(1500), Str("not a date")},
   useNativeCanonize : {Undefined}]

\* a document that reads like the proof options of one of the suite's proofs
ProofShapedDocument ==
  ("@context" :> SECURITY_CONTEXT_URL) @@
  [type |-> SuiteType, created |-> Str("1970-01-01T00:00:01Z"),
   verificationMethod |-> Str("k1"), proofPurpose |-> Str("assertionMethod")]

Documents == {[name |-> Str("alice")], [name |-> Str("bob")], ProofShapedDocument}

NoObject == EmptyObject
NoData == <<>>
NoResult == [kind |-> "none"]

\* the second caller has not called yet
NoCall ==
  [pc |-> "idle", during |-> "", document |-> NoObject, proof |-> NoObject,
   verifyData |-> NoData, result |-> NoResult]

\* one entry of the log of collaborator calls
Call(fn, arg, out) == [fn |-> fn, arg |-> arg, out |-> out]

(***************************************************************************)
(* Construction.                                                           *)
(***************************************************************************)
Init ==
  /\ suite = NoSuite
  /\ ctorArgs = NoSuite
  /\ ctorError = ""
  /\ resolver = [k \in KeyIds |-> IF k = "k3" THEN "absent" ELSE "active"]
  /\ document = NoObject
  /\ callerProof = NoObject
  /\ tampered = "no"
  /\ pc = "new"
  /\ op = ""
  /\ proof = NoObject
  /\ verifyData = NoData
  /\ method = NoNode
  /\ result = NoResult
  /\ calls = <<>>
  /\ other = NoCall

\* new Ed25519Signature2018(args)
Construct(args) ==
  /\ pc = "new"
  /\ ctorArgs' = args
  /\ LET made == Constructor(args)
     IN  IF made.kind = "throw"
         THEN /\ ctorError' = made.error
              /\ suite' = suite
              /\ pc' = "ctorFailed"
         ELSE /\ ctorError' = ""
              /\ suite' = made.value
              /\ pc' = "idle"
  /\ UNCHANGED <<resolver, document, callerProof, tampered, op, proof,
                 verifyData, method, result, calls, other>>

(***************************************************************************)
(* createProof.                                                            *)
(***************************************************************************)
\* how a collaborator call may end
Outcomes == {"ok", "throw"}

\* how the two canonicalizations of createVerifyData may end
CanonizeOutcomes == {"ok", "proof options throw", "document throws"}

\* the canonicalizer calls of createVerifyData, with what each was given
CanonizeCalls(d, p, out) ==
  IF out = "proof options throw"
  THEN <<Call("canonize", ProofOptions(p), "throw")>>
  ELSE <<Call("canonize", ProofOptions(p), "ok"),
         Call("canonize", d, IF out = "ok" THEN "ok" ELSE "throw")>>

\* createProof swallows the error and returns the proof built so far
CreateReturnsPartial(e) ==
  /\ result' = Returned(proof)
  /\ callerProof' = proof
  /\ pc' = "held"
  /\ UNCHANGED <<proof, verifyData>>

\* createProof throws: no proof is returned
CreateThrows(e) ==
  /\ result' = Thrown(e)
  /\ pc' = "createFailed"
  /\ UNCHANGED <<proof, verifyData, callerProof>>

\* lines 95-104: the base proof
CreateProof(d) ==
  /\ pc = "idle"
  /\ op' = "create"
  /\ document' = d
  /\ IF suite.proof # Undefined
     THEN \E out \in Outcomes :
            /\ calls' = <<Call("jsonld.compact", suite.proof, out)>>
            /\ IF out = "throw"
               THEN CreateThrows("jsonld.compact failed")
               ELSE /\ proof' = Put(suite.proof, "@context", SECURITY_CONTEXT_URL)
                    /\ pc' = "c_stamp"
                    /\ UNCHANGED <<verifyData, callerProof, result>>
     ELSE /\ calls' = <<>>
          /\ proof' = ("@context" :> SECURITY_CONTEXT_URL)
          /\ pc' = "c_stamp"
          /\ UNCHANGED <<verifyData, callerProof, result>>
  /\ UNCHANGED <<other, suite, ctorArgs, ctorError, resolver, tampered, method>>

\* the current time is read whenever no date is configured
ReadsClockIgnoringTemplate(p, this) == this.date = Undefined

\* line 111: the current time is read
ReadsClock(p, this) == Get(p, "created") = Undefined /\ this.date = Undefined

\* the stamps without the conversion of lines 116-118
StampedUnformatted(p, this, clock) ==
  LET p1 == Put(p, "type", this.type)
      date1 == IF ReadsClock(p1, this) THEN DateObj(clock) ELSE this.date
      p2 == IF date1 # Undefined THEN Put(p1, "created", date1) ELSE p1
      p3 == IF this.verificationMethod # Undefined
            THEN Put(p2, "verificationMethod", this.verificationMethod) ELSE p2
  IN  IF this.creator # Undefined THEN Put(p3, "creator", this.creator) ELSE p3

\* the stamps with creator written only when no verificationMethod is
\* configured
StampedExclusive(p, this, clock) ==
  LET p1 == Put(p, "type", this.type)
      date1 == IF ReadsClock(p1, this) THEN DateObj(clock) ELSE this.date
      date2 == IF date1 # Undefined /\ TypeOf(date1) # "string"
               THEN w3cDate(date1) ELSE date1
      p2 == IF date2 # Undefined THEN Put(p1, "created", date2) ELSE p1
  IN  IF this.verificationMethod # Undefined
      THEN Put(p2, "verificationMethod", this.verificationMethod)
      ELSE IF this.creator # Undefined THEN Put(p2, "creator", this.creator) ELSE p2

\* lines 106-130: type, created and identity are stamped on the proof
Stamped(p, this, clock) ==
  LET p1 == Put(p, "type", this.type)
      date1 == IF ReadsClock(p1, this) THEN DateObj(clock) ELSE this.date
      date2 == IF date1 # Undefined /\ TypeOf(date1) # "string"
               THEN w3cDate(date1) ELSE date1
      p2 == IF date2 # Undefined THEN Put(p1, "created", date2) ELSE p1
      p3 == IF this.verificationMethod # Undefined
            THEN Put(p2, "verificationMethod", this.verificationMethod) ELSE p2
  IN  IF this.creator # Undefined THEN Put(p3, "creator", this.creator) ELSE p3

\* a createProof that stamps the suite's template object itself: what it
\* stamps stays on the suite
CreateStampOnTemplate ==
  /\ pc = "c_stamp"
  /\ IF ReadsClock(proof, suite)
     THEN \E clock \in ClockReadings :
            /\ proof' = Stamped(proof, suite, clock)
            /\ calls' = Append(calls, Call("Date", NoObject, "ok"))
     ELSE /\ proof' = Stamped(proof, suite, 0)
          /\ calls' = calls
  /\ suite' = [suite EXCEPT !.proof = Delete(proof', "@context")]
  /\ pc' = "c_update"
  /\ UNCHANGED <<other, ctorArgs, ctorError, resolver, document, callerProof,
                 tampered, op, verifyData, method, result>>

CreateStamp ==
  /\ pc = "c_stamp"
  /\ IF ReadsClock(proof, suite)
     THEN \E clock \in ClockReadings :
            /\ proof' = Stamped(proof, suite, clock)
            /\ calls' = Append(calls, Call("Date", NoObject, "ok"))
     ELSE /\ proof' = Stamped(proof, suite, 0)
          /\ calls' = calls
  /\ pc' = "c_update"
  /\ UNCHANGED <<other, suite, ctorArgs, ctorError, resolver, document, callerProof,
                 tampered, op, verifyData, method, result>>

\* updateProof
updateProof(p) == p

\* lines 133-135: the hook is awaited; the hook of an extending class may throw
CreateUpdateProof ==
  /\ pc = "c_update"
  /\ \E out \in Outcomes :
       /\ calls' = Append(calls, Call("updateProof", proof, out))
       /\ IF out = "throw"
          THEN CreateThrows("updateProof failed")
          ELSE /\ proof' = updateProof(proof)
               /\ pc' = "c_purpose"
               /\ UNCHANGED <<verifyData, callerProof, result>>
  /\ UNCHANGED <<other, suite, ctorArgs, ctorError, resolver, document, tampered, op,
                 method>>

\* purpose.update: the proof with its purpose written on it
PurposeUpdate(p) == Put(p, "proofPurpose", Str("assertionMethod"))

\* lines 140-141
CreatePurposeUpdate ==
  /\ pc = "c_purpose"
  /\ \E out \in Outcomes :
       /\ calls' = Append(calls, Call("purpose.update", proof, out))
       /\ IF out = "throw"
          THEN CreateThrows("purpose.update failed")
          ELSE /\ proof' = PurposeUpdate(proof)
               /\ pc' = "c_data"
               /\ UNCHANGED <<verifyData, callerProof, result>>
  /\ UNCHANGED <<other, suite, ctorArgs, ctorError, resolver, document, tampered, op,
                 method>>

\* the data to sign is computed over the proof as it was before purpose.update
CreateVerifyDataOfStampedProof ==
  /\ pc = "c_data"
  /\ \E out \in CanonizeOutcomes :
       /\ calls' = calls \o CanonizeCalls(document, Delete(proof, "proofPurpose"), out)
       /\ IF out # "ok"
          THEN CreateThrows("jsonld.canonize failed")
          ELSE /\ verifyData' = createVerifyData(document, Delete(proof, "proofPurpose"))
               /\ pc' = "c_sign"
               /\ UNCHANGED <<proof, callerProof, result>>
  /\ UNCHANGED <<other, suite, ctorArgs, ctorError, resolver, document, tampered, op,
                 method>>

\* lines 144-145
CreateVerifyData ==
  /\ pc = "c_data"
  /\ \E out \in CanonizeOutcomes :
       /\ calls' = calls \o CanonizeCalls(document, proof, out)
       /\ IF out # "ok"
          THEN CreateThrows("jsonld.canonize failed")
          ELSE /\ verifyData' = createVerifyData(document, proof)
               /\ pc' = "c_sign"
               /\ UNCHANGED <<proof, callerProof, result>>
  /\ UNCHANGED <<other, suite, ctorArgs, ctorError, resolver, document, tampered, op,
                 method>>

\* lines 148-151: the signed proof is returned to the caller
CreateSign ==
  /\ pc = "c_sign"
  /\ \E out \in Outcomes :
       /\ calls' = Append(calls, Call("sign", proof, out))
       /\ IF out = "throw"
          THEN CreateThrows("sign failed")
          ELSE /\ proof' = SignProof(verifyData, proof)
               /\ callerProof' = proof'
               /\ result' = Returned(proof')
               /\ pc' = "held"
               /\ UNCHANGED verifyData
  /\ UNCHANGED <<other, suite, ctorArgs, ctorError, resolver, document, tampered, op,
                 method>>

(***************************************************************************)
(* What happens between creation and verification.                         *)
(***************************************************************************)
SignatureFields == {"jws", "signatureValue", "proofValue"}
IdentityFields == {"verificationMethod", "creator"}
OptionFields == IdentityFields \cup {"created", "type", "proofPurpose"}

\* the values a caller may write into a proof field (Undefined: the field is
\* deleted)
TamperValues(f) ==
  IF f \in IdentityFields
  THEN {Undefined, Null, Str(""), Str("k1"), Str("k2"), Str("k3"), Obj("k1"), Obj("")}
  ELSE {Undefined, Str("other")}

\* obj with field f changed to x
Changed(obj, f, x) == IF x = Undefined THEN Delete(obj, f) ELSE Put(obj, f, x)

\* the caller changes the document
TamperDocument(d) ==
  /\ pc = "held" /\ tampered = "no"
  /\ d # document
  /\ document' = d
  /\ tampered' = "document"
  /\ UNCHANGED <<other, suite, ctorArgs, ctorError, resolver, callerProof, pc, op,
                 proof, verifyData, method, result, calls>>

\* the caller changes a proof-option field of the proof
TamperOption(f, x) ==
  /\ pc = "held" /\ tampered = "no"
  /\ Get(callerProof, f) # x
  /\ callerProof' = Changed(callerProof, f, x)
  /\ tampered' = f
  /\ UNCHANGED <<other, suite, ctorArgs, ctorError, resolver, document, pc, op,
                 proof, verifyData, method, result, calls>>

\* verifyData with the two digests in the other order
SwappedVerifyData(d, p) ==
  sha256(JsonldCanonize(d)) \o sha256(JsonldCanonize(ProofOptions(p)))

\* what a signer that concatenates in the other order attaches as `jws`
SwappedSignature(d, p) ==
  [t |-> "jws", v |-> [key |-> SignerKey, data |-> SwappedVerifyData(d, p)]]

\* the values a caller may write into a signature-bearing field
SignatureValues(f) ==
  {Undefined, Str("forged")}
    \cup IF f = "jws" THEN {SwappedSignature(document, callerProof)} ELSE {}

\* the caller changes, adds or removes a signature-bearing field
TamperSignature(f, x) ==
  /\ pc = "held" /\ tampered = "no"
  /\ Get(callerProof, f) # x
  /\ callerProof' = Changed(callerProof, f, x)
  /\ tampered' = f
  /\ UNCHANGED <<other, suite, ctorArgs, ctorError, resolver, document, pc, op,
                 proof, verifyData, method, result, calls>>

\* the controller of a verification method revokes it
Revoke(k) ==
  /\ pc = "held"
  /\ resolver[k] = "active"
  /\ resolver' = [resolver EXCEPT ![k] = "revoked"]
  /\ UNCHANGED <<other, suite, ctorArgs, ctorError, document, callerProof, tampered,
                 pc, op, proof, verifyData, method, result, calls>>

(***************************************************************************)
(* verifyProof.                                                            *)
(***************************************************************************)
\* a verifyProof whose try block does not cover the failing statement
VerifyRethrow(error) == Thrown(error)

\* lines 207-209: whatever is thrown inside the try block is returned
VerifyCatch(error) == Returned([verified |-> FALSE, error |-> error])

\* verifyProof ends
VerifyEnds(r) ==
  /\ result' = r
  /\ pc' = "done"

\* a verifyProof whose canonizeProof deletes the signature-bearing fields from
\* the proof it was given, not from a copy
VerifyProofInPlace ==
  /\ pc = "held"
  /\ op' = "verify"
  /\ callerProof' = ProofOptions(callerProof)
  /\ \E out \in CanonizeOutcomes :
       /\ calls' = CanonizeCalls(document, callerProof, out)
       /\ IF out # "ok"
          THEN /\ VerifyEnds(VerifyCatch("jsonld.canonize failed"))
               /\ verifyData' = NoData
          ELSE /\ verifyData' = createVerifyData(document, callerProof)
               /\ pc' = "v_method"
               /\ UNCHANGED result
  /\ UNCHANGED <<other, suite, ctorArgs, ctorError, resolver, document, tampered,
                 proof, method>>

\* lines 183-184
VerifyProof ==
  /\ pc = "held"
  /\ op' = "verify"
  /\ \E out \in CanonizeOutcomes :
       /\ calls' = CanonizeCalls(document, callerProof, out)
       /\ IF out # "ok"
          THEN /\ VerifyEnds(VerifyCatch("jsonld.canonize failed"))
               /\ verifyData' = NoData
          ELSE /\ verifyData' = createVerifyData(document, callerProof)
               /\ pc' = "v_method"
               /\ UNCHANGED result
  /\ UNCHANGED <<other, suite, ctorArgs, ctorError, resolver, document, callerProof,
                 tampered, proof, method>>

\* getVerificationMethod reaches jsonld.frame
CallsFrame(p) ==
  LET identifier == ProofIdentifier(p)
  IN  identifier.kind = "return" /\ ~Falsy(identifier.value)

\* lines 187-188
VerifyGetMethod ==
  /\ pc = "v_method"
  /\ \E out \in IF CallsFrame(callerProof) THEN Outcomes ELSE {"ok"} :
       LET got == IF out = "throw" THEN Thrown("documentLoader failed")
                  ELSE getVerificationMethod(callerProof, resolver)
       IN  /\ calls' = IF CallsFrame(callerProof)
                       THEN Append(calls, Call("jsonld.frame",
                                               IF out = "throw" THEN NoNode
                                               ELSE Frame(ProofIdentifier(callerProof).value, resolver),
                                               out))
                       ELSE calls
           /\ IF got.kind = "throw"
              THEN /\ VerifyEnds(VerifyCatch(got.error))
                   /\ method' = method
              ELSE /\ method' = got.value
                   /\ pc' = "v_sig"
                   /\ UNCHANGED result
  /\ UNCHANGED <<other, suite, ctorArgs, ctorError, resolver, document, callerProof,
                 tampered, op, proof, verifyData>>

\* a verifyProof without the check of lines 194-196: the purpose is asked
\* whatever verifySignature answered
VerifySignatureUnchecked ==
  /\ pc = "v_sig"
  /\ \E out \in Outcomes :
       LET verified == out = "ok" /\ SignatureVerifies(verifyData, method, callerProof)
       IN  /\ calls' = Append(calls, Call("verifySignature", callerProof,
                                         IF out = "throw" THEN "throw"
                                         ELSE IF verified THEN "true" ELSE "false"))
           /\ IF out = "throw"
              THEN VerifyEnds(VerifyCatch("verifySignature failed"))
              ELSE /\ pc' = "v_purpose"
                   /\ UNCHANGED result
  /\ UNCHANGED <<other, suite, ctorArgs, ctorError, resolver, document, callerProof,
                 tampered, op, proof, verifyData, method>>

\* lines 191-196
VerifySignature ==
  /\ pc = "v_sig"
  /\ \E out \in Outcomes :
       LET verified == out = "ok" /\ SignatureVerifies(verifyData, method, callerProof)
       IN  /\ calls' = Append(calls, Call("verifySignature", callerProof,
                                         IF out = "throw" THEN "throw"
                                         ELSE IF verified THEN "true" ELSE "false"))
           /\ IF out = "throw"
              THEN VerifyEnds(VerifyCatch("verifySignature failed"))
              ELSE IF ~verified
              THEN VerifyEnds(VerifyCatch("Invalid signature."))
              ELSE /\ pc' = "v_purpose"
                   /\ UNCHANGED result
  /\ UNCHANGED <<other, suite, ctorArgs, ctorError, resolver, document, callerProof,
                 tampered, op, proof, verifyData, method>>

\* what purpose.validate may do: throw, return nothing, or return its judgment
ValidateOutcomes == {"throw", "undefined", "valid", "invalid"}

PurposeResult(out) ==
  IF out = "valid" THEN [valid |-> TRUE]
  ELSE [valid |-> FALSE, error |-> "purpose rejected the proof"]

\* a verifyProof that does not look at the purpose's judgment
ValidatedUnjudged(out) ==
  CASE out = "throw" -> VerifyCatch("purpose.validate failed")
    [] out = "undefined" ->
         VerifyCatch("TypeError: Cannot read properties of undefined (reading 'valid')")
    [] OTHER -> Returned([verified |-> TRUE, purposeResult |-> PurposeResult(out)])

\* lines 199-206
Validated(out) ==
  CASE out = "throw" -> VerifyCatch("purpose.validate failed")
    [] out = "undefined" ->
         VerifyCatch("TypeError: Cannot read properties of undefined (reading 'valid')")
    [] out = "invalid" -> VerifyCatch(PurposeResult(out).error)
    [] OTHER -> Returned([verified |-> TRUE, purposeResult |-> PurposeResult(out)])

VerifyPurpose ==
  /\ pc = "v_purpose"
  /\ \E out \in ValidateOutcomes :
       /\ calls' = Append(calls, Call("purpose.validate", callerProof, out))
       /\ VerifyEnds(Validated(out))
  /\ UNCHANGED <<other, suite, ctorArgs, ctorError, resolver, document, callerProof,
                 tampered, op, proof, verifyData, method>>

(***************************************************************************)
(* The specification.                                                      *)
(***************************************************************************)
Next ==
  \/ \E args \in CtorArgs : Construct(args)
  \/ \E d \in Documents : CreateProof(d)
  \/ CreateStamp
  \/ CreateUpdateProof
  \/ CreatePurposeUpdate
  \/ CreateVerifyData
  \/ CreateSign
  \/ \E d \in Documents : TamperDocument(d)
  \/ \E f \in OptionFields : \E x \in TamperValues(f) : TamperOption(f, x)
  \/ \E f \in SignatureFields : \E x \in SignatureValues(f) : TamperSignature(f, x)
  \/ \E k \in KeyIds : Revoke(k)
  \/ VerifyProof
  \/ VerifyGetMethod
  \/ VerifySignature
  \/ VerifyPurpose

Spec == Init /\ [][Next]_vars

(***************************************************************************)
(* Two callers on one suite.  A second caller runs a createProof of its    *)
(* own while the first caller's createProof or verifyProof is between two  *)
(* awaits; the steps of the two calls interleave freely.                   *)
(***************************************************************************)
\* everything but the locals of the second call
firstVars == <<suite, ctorArgs, ctorError, resolver, document, callerProof,
               tampered, pc, op, proof, verifyData, method, result, calls>>

\* the configurations of the suite the two callers share
ConcurrentArgs ==
  {a \in CtorArgs : /\ a.creator = Undefined
                    /\ a.verificationMethod = Str("k1")
                    /\ a.date \in {Undefined, DateObj(1500)}}

\* lines 95-104, as a function of the suite
BaseProofOf(this) ==
  Put(IF this.proof = Undefined THEN EmptyObject ELSE this.proof,
      "@context", SECURITY_CONTEXT_URL)

\* the second call throws
OtherThrows(e) == other' = [other EXCEPT !.pc = "failed", !.result = Thrown(e)]

\* lines 95-104
OtherCreateProof(d) ==
  /\ pc \notin {"new", "ctorFailed"}
  /\ other.pc = "idle"
  /\ \E out \in IF suite.proof # Undefined THEN Outcomes ELSE {"ok"} :
       other' = IF out = "throw"
                THEN [NoCall EXCEPT !.pc = "failed", !.during = pc, !.document = d,
                                    !.result = Thrown("jsonld.compact failed")]
                ELSE [NoCall EXCEPT !.pc = "c_stamp", !.during = pc, !.document = d,
                                    !.proof = BaseProofOf(suite)]
  /\ UNCHANGED firstVars

\* lines 106-130
OtherStamp ==
  /\ other.pc = "c_stamp"
  /\ \E clock \in IF ReadsClock(other.proof, suite) THEN ClockReadings ELSE {0} :
       other' = [other EXCEPT !.pc = "c_update",
                              !.proof = Stamped(other.proof, suite, clock)]
  /\ UNCHANGED firstVars

\* lines 133-135
OtherUpdateProof ==
  /\ other.pc = "c_update"
  /\ \E out \in Outcomes :
       IF out = "throw"
       THEN OtherThrows("updateProof failed")
       ELSE other' = [other EXCEPT !.pc = "c_purpose", !.proof = updateProof(other.proof)]
  /\ UNCHANGED firstVars

\* lines 140-141
OtherPurposeUpdate ==
  /\ other.pc = "c_purpose"
  /\ \E out \in Outcomes :
       IF out = "throw"
       THEN OtherThrows("purpose.update failed")
       ELSE other' = [other EXCEPT !.pc = "c_data", !.proof = PurposeUpdate(other.proof)]
  /\ UNCHANGED firstVars

\* lines 144-145
OtherVerifyData ==
  /\ other.pc = "c_data"
  /\ \E out \in Outcomes :
       IF out = "throw"
       THEN OtherThrows("jsonld.canonize failed")
       ELSE other' = [other EXCEPT !.pc = "c_sign",
                                   !.verifyData = createVerifyData(other.document, other.proof)]
  /\ UNCHANGED firstVars

\* lines 148-151
OtherSign ==
  /\ other.pc = "c_sign"
  /\ \E out \in Outcomes :
       IF out = "throw"
       THEN OtherThrows("sign failed")
       ELSE LET signed == SignProof(other.verifyData, other.proof)
            IN  other' = [other EXCEPT !.pc = "returned", !.proof = signed,
                                       !.result = Returned(signed)]
  /\ UNCHANGED firstVars

NextConcurrent ==
  \/ \E args \in ConcurrentArgs : Construct(args)
  \/ \E d \in Documents : CreateProof(d)
  \/ CreateStamp
  \/ CreateUpdateProof
  \/ CreatePurposeUpdate
  \/ CreateVerifyData
  \/ CreateSign
  \/ VerifyProof
  \/ VerifyGetMethod
  \/ VerifySignature
  \/ VerifyPurpose
  \/ \E d \in Documents : OtherCreateProof(d)
  \/ OtherStamp
  \/ OtherUpdateProof
  \/ OtherPurposeUpdate
  \/ OtherVerifyData
  \/ OtherSign

SpecConcurrent == Init /\ [][NextConcurrent]_vars

(***************************************************************************)
(* Properties.                                                             *)
(***************************************************************************)
\* the running call invoked fn and the call ended as out
Ran(fn, out) == \E i \in 1..Len(calls) : calls[i].fn = fn /\ calls[i].out = out

\* the running call invoked fn
Invoked(fn) == \E i \in 1..Len(calls) : calls[i].fn = fn

VerifyDone == op = "verify" /\ pc = "done"

\* a step of the running verifyProof failed: a collaborator threw, the
\* signature was found invalid, the purpose returned nothing or rejected the
\* proof, or getVerificationMethod threw
VerifyStepFailed ==
  \/ \E i \in 1..Len(calls) : calls[i].out \in {"throw", "false", "undefined", "invalid"}
  \/ /\ verifyData # NoData
     /\ getVerificationMethod(callerProof, resolver).kind = "throw"

\* C1: verifyProof never raises.  Whatever the proof, the document, the
\* purpose and the collaborators do, a running verifyProof can take its
\* next step, and when it has ended it has returned a value, never thrown;
\* whenever one of its steps failed, the value is {verified: false, error}.
C1_VerifyNeverRaises ==
  /\ op = "verify" => result.kind # "throw"
  /\ op = "verify" /\ pc # "done" =>
       ENABLED (VerifyGetMethod \/ VerifySignature \/ VerifyPurpose)
  /\ VerifyDone =>
       /\ result.kind = "return"
       /\ result.value.verified \in BOOLEAN
       /\ VerifyStepFailed =>
            /\ result.value.verified = FALSE
            /\ DOMAIN result.value = {"verified", "error"}

\* C1 witness: purpose.validate returned no result object, and verifyProof
\* returned {verified: false, error}
C1_Witness ==
  /\ VerifyDone
  /\ Ran("purpose.validate", "undefined")
  /\ result.kind = "return"
  /\ result.value.verified = FALSE

\* every step of the running verifyProof succeeded
AllStepsSucceeded ==
  /\ Len(calls) = 5
  /\ calls[1] = Call("canonize", ProofOptions(callerProof), "ok")
  /\ calls[2] = Call("canonize", document, "ok")
  /\ calls[3].fn = "jsonld.frame" /\ calls[3].out = "ok"
  /\ calls[3].arg # NoNode /\ calls[3].arg.revoked = Undefined
  /\ method = calls[3].arg
  /\ calls[4].fn = "verifySignature" /\ calls[4].out = "true"
  /\ calls[5].fn = "purpose.validate" /\ calls[5].out = "valid"

\* C2: verifyProof returns {verified: true} only if in that call
\* createVerifyData succeeded, getVerificationMethod returned a non-revoked
\* method, verifySignature returned true and purpose.validate returned a
\* valid result; otherwise verified is false.  A falsy verifySignature
\* result gives {verified: false} with the 'Invalid signature.' error.
C2_VerifiedOnlyIfAllSucceed ==
  VerifyDone =>
    /\ result.value.verified = AllStepsSucceeded
    /\ Ran("verifySignature", "false") =>
         result.value = [verified |-> FALSE, error |-> "Invalid signature."]

\* C2 witness: a verifyProof in which all four steps succeeded has returned
\* {verified: true}
C2_Witness ==
  /\ VerifyDone
  /\ AllStepsSucceeded
  /\ result.value.verified = TRUE

\* no collaborator of the running call threw, and the purpose, if asked,
\* accepted the proof
CollaboratorsBehave ==
  \A i \in 1..Len(calls) : calls[i].out \in {"ok", "true", "false", "valid"}

\* the resolver knows the signing key, and the key has not been revoked
ResolverKnowsKey == resolver[SignerKey] = "active"

\* the caller verifies the proof and the document exactly as createProof
\* left them
RoundTrip ==
  /\ VerifyDone
  /\ tampered = "no"
  /\ callerProof = proof
  /\ CollaboratorsBehave
  /\ ResolverKnowsKey

\* C3 as stated: for any suite configuration the constructor accepts,
\* verifying the created proof with the same document, an accepting purpose
\* and a resolver that knows the key gives {verified: true}.
C3_RoundTripAnyConfiguration ==
  RoundTrip => result.value.verified = TRUE

\* the proof names the signing key: its verificationMethod, or with an empty
\* verificationMethod its creator, is the identifier of the key
NamesSignerKey(p) == ProofIdentifier(p) = Returned(Str(SignerKey))

\* C3 amended: the round trip gives {verified: true} for every accepted
\* configuration under which the created proof names the signing key
\* (configured as verificationMethod or creator, or carried by the template).
C3_RoundTrip ==
  RoundTrip /\ NamesSignerKey(callerProof) => result.value.verified = TRUE

\* C3 witness: a created proof, verified unchanged, is found valid
C3_Witness ==
  /\ RoundTrip
  /\ NamesSignerKey(callerProof)
  /\ Ran("purpose.validate", "valid")
  /\ result.value.verified = TRUE

\* the caller changed the document or a proof-option field after createProof
TamperedWith == tampered \in {"document"} \cup OptionFields

\* the canonical form of the proof options or of the document is no longer
\* the one that was signed
CanonicalFormChanged ==
  \/ JsonldCanonize(ProofOptions(callerProof)) # JsonldCanonize(ProofOptions(proof))
  \/ sha256(JsonldCanonize(document)) # SubSeq(Get(proof, "jws").v.data, 2, 2)

\* C4 as stated: after createProof, a change of the document or of any
\* proof-option field makes verifyProof return {verified: false} with the
\* invalid-signature error (no collaborator throwing, no key revoked, and
\* the unchanged proof naming the signing key).
C4_TamperGivesInvalidSignature ==
  /\ VerifyDone /\ TamperedWith
  /\ ~(\E i \in 1..Len(calls) : calls[i].out = "throw")
  /\ \A k \in KeyIds : resolver[k] # "revoked"
  /\ NamesSignerKey(proof)
  => result.value = [verified |-> FALSE, error |-> "Invalid signature."]

\* C4 amended: after createProof, a change of the document or of a
\* proof-option field that changes its canonical form makes verifyProof
\* return {verified: false}: verifySignature never accepts, and the error is
\* the invalid-signature error whenever createVerifyData and
\* getVerificationMethod succeed on the changed input and verifySignature
\* does not throw; otherwise it is the error of the step that failed first.
C4_TamperDetected ==
  VerifyDone /\ TamperedWith /\ CanonicalFormChanged =>
    /\ result.value.verified = FALSE
    /\ ~Ran("verifySignature", "true")
    /\ Invoked("verifySignature") /\ ~Ran("verifySignature", "throw") =>
         result.value.error = "Invalid signature."
    /\ ~Invoked("verifySignature") /\ Len(calls) = 2 /\ calls[2].out = "ok" =>
         result.value.error = getVerificationMethod(callerProof, resolver).error

\* C4 witness: the document was changed after signing and the verification
\* ended with the invalid-signature error
C4_Witness ==
  /\ VerifyDone
  /\ tampered = "document"
  /\ CanonicalFormChanged
  /\ Ran("verifySignature", "false")
  /\ result.value = [verified |-> FALSE, error |-> "Invalid signature."]

RevokedError == "The verification method has been revoked."

\* the resolver answered the running verifyProof with a node that carries a
\* revocation marker
ResolvedRevoked ==
  /\ op = "verify"
  /\ \E i \in 1..Len(calls) :
       /\ calls[i].fn = "jsonld.frame" /\ calls[i].out = "ok"
       /\ calls[i].arg # NoNode /\ calls[i].arg.revoked # Undefined

\* C5: revocation gate.  Whenever the verification method resolved for the
\* proof carries a revocation marker, getVerificationMethod fails with the
\* revoked error, verifyProof returns {verified: false} with that error, and
\* neither verifySignature nor purpose.validate is invoked in that call.
C5_RevocationGate ==
  ResolvedRevoked =>
    /\ getVerificationMethod(callerProof, resolver) = Thrown(RevokedError)
    /\ pc = "done"
    /\ result = Returned([verified |-> FALSE, error |-> RevokedError])
    /\ ~Invoked("verifySignature")
    /\ ~Invoked("purpose.validate")

\* C5 witness: the key of an unchanged, correctly signed proof was revoked,
\* and the verification failed with the revoked error
C5_Witness ==
  /\ ResolvedRevoked
  /\ pc = "done"
  /\ tampered = "no"
  /\ SignatureVerifies(verifyData, Node(SignerKey, "active"), callerProof)
  /\ result.value.error = RevokedError

\* the identifiers a proof may name: strings and objects (with or without id)
Identifiers == {Str(""), Str("k1"), Str("k2"), Str("k3"), Obj("k1"), Obj("k3"), Obj("")}

\* getVerificationMethod of the running verifyProof has ended and was
\* answered by the document loader
MethodStepEnded ==
  /\ op = "verify"
  /\ Len(calls) >= 2 /\ calls[2].out = "ok"
  /\ ~Ran("jsonld.frame", "throw")
  /\ pc # "v_method"

\* how it ended: the method it returned, or the error it threw
MethodStepOutcome ==
  IF pc \in {"v_sig", "v_purpose"} \/ Invoked("verifySignature")
  THEN Returned(method)
  ELSE Thrown(result.value.error)

HasBoth(p) == {"verificationMethod", "creator"} \subseteq DOMAIN p
HasOnlyCreator(p) == "creator" \in DOMAIN p /\ "verificationMethod" \notin DOMAIN p

\* the proof with its `creator` moved to `verificationMethod`
CreatorAsMethod(p) == Put(Delete(p, "creator"), "verificationMethod", p["creator"])

\* C6 as stated, second part: when both fields are present the identifier
\* taken is verificationMethod.
C6_MethodTakenWhenBothPresent ==
  MethodStepEnded /\ HasBoth(callerProof) =>
    MethodStepOutcome = getVerificationMethod(Delete(callerProof, "creator"), resolver)

\* C6 amended: for every identifier X and resolver state a proof with only
\* creator = X resolves as a proof with only verificationMethod = X does
\* (same method or same error); when both fields are present the identifier
\* taken is verificationMethod unless that is empty or null, and then it is
\* creator; when the chosen value is an object its `id` is what is resolved.
C6_LegacyIdentityFallback ==
  /\ \A X \in Identifiers :
       getVerificationMethod([creator |-> X], resolver)
         = getVerificationMethod([verificationMethod |-> X], resolver)
  /\ MethodStepEnded /\ HasOnlyCreator(callerProof)
       /\ callerProof["creator"] \in Identifiers =>
       MethodStepOutcome = getVerificationMethod(CreatorAsMethod(callerProof), resolver)
  /\ MethodStepEnded /\ HasBoth(callerProof) =>
       MethodStepOutcome =
         getVerificationMethod(
           Delete(callerProof, IF Falsy(callerProof["verificationMethod"])
                               THEN "verificationMethod" ELSE "creator"),
           resolver)
  /\ \A X \in {Obj("k1"), Obj("k3")}, f \in IdentityFields :
       getVerificationMethod((f :> X), resolver)
         = getVerificationMethod((f :> Str(X.v)), resolver)

\* C6 witness: a proof with only a creator, given as an object, resolved to
\* the method its id names
C6_Witness ==
  /\ MethodStepEnded
  /\ HasOnlyCreator(callerProof)
  /\ callerProof["creator"] = Obj("k1")
  /\ MethodStepOutcome = Returned(Node("k1", "active"))

\* the caller holds a proof
HoldsProof == pc \in {"held", "v_method", "v_sig", "v_purpose", "done"}

\* the i-th call of the running call is the canonicalization of proof options
CanonizesProofOptions(i) ==
  /\ calls[i].fn = "canonize"
  /\ i = 1 \/ calls[i - 1].fn # "canonize"

\* C7: field exclusion.  The proof options handed to the canonicalizer never
\* contain jws, signatureValue or proofValue; so createVerifyData gives the
\* same bytes for a proof and for that proof with any of these fields added,
\* removed or changed, and a verification of a created proof whose
\* signature-bearing fields were touched recomputes the bytes that were
\* signed.
C7_FieldExclusion ==
  /\ \A i \in 1..Len(calls) :
       CanonizesProofOptions(i) => DOMAIN calls[i].arg \cap SignatureFields = {}
  /\ HoldsProof =>
       \A f \in SignatureFields, x \in {Undefined, Str("forged"), Str("other")} :
         createVerifyData(document, Changed(callerProof, f, x))
           = createVerifyData(document, callerProof)
  /\ op = "verify" /\ verifyData # NoData /\ tampered \in SignatureFields =>
       verifyData = Get(proof, "jws").v.data

\* C7 witness: a proofValue was added to a created proof, and the proof
\* still verifies
C7_Witness ==
  /\ VerifyDone
  /\ tampered = "proofValue"
  /\ "proofValue" \in DOMAIN callerProof
  /\ verifyData = Get(proof, "jws").v.data
  /\ result.value.verified = TRUE

\* the proof and the document the running call computed verifyData from
\* are still the ones in the state
InputsInState == op = "verify" \/ (op = "create" /\ tampered = "no")

\* C8: createVerifyData(document, proof) is digest(canonicalize(proof
\* options)) followed by digest(canonicalize(document)), in that order, the
\* two canonicalizer calls being made on exactly these inputs; and a second
\* call on the same document and proof options returns the same bytes.
C8_VerifyDataIsOptionsThenDocument ==
  verifyData # NoData =>
    /\ InputsInState =>
         verifyData =
           sha256(JsonldCanonize(ProofOptions(IF op = "verify" THEN callerProof ELSE proof)))
             \o sha256(JsonldCanonize(document))
    /\ \E i \in 1..(Len(calls) - 1) :
         /\ CanonizesProofOptions(i)
         /\ calls[i].out = "ok" /\ calls[i + 1].out = "ok"
         /\ calls[i + 1].fn = "canonize"
         /\ verifyData = sha256(JsonldCanonize(calls[i].arg))
                           \o sha256(JsonldCanonize(calls[i + 1].arg))
    /\ op = "verify" /\ tampered = "no" => verifyData = Get(proof, "jws").v.data

\* C8 witness: verifyProof recomputed, for an unchanged document and proof,
\* the two digests that createProof signed
C8_Witness ==
  /\ op = "verify" /\ pc = "v_method" /\ tampered = "no"
  /\ Len(verifyData) = 2
  /\ verifyData[1] = sha256(JsonldCanonize(ProofOptions(callerProof)))[1]
  /\ verifyData[2] = sha256(JsonldCanonize(document))[1]
  /\ verifyData = Get(proof, "jws").v.data

\* C9 as stated: for every document and proof options the bytes built in
\* the swapped order differ from the canonical verifyData.
C9_SwappedAlwaysDiffers ==
  HoldsProof =>
    SwappedVerifyData(document, callerProof) # createVerifyData(document, callerProof)

\* the canonical form of the document is not that of the proof options
FormsDiffer == JsonldCanonize(document) # JsonldCanonize(ProofOptions(callerProof))

\* C9 amended: for every document and proof options whose canonical forms
\* differ, the bytes built in the swapped order differ from the canonical
\* verifyData, and verifyProof rejects a signature made over the
\* swapped-order bytes.
C9_OrderSensitivity ==
  /\ HoldsProof /\ FormsDiffer =>
       SwappedVerifyData(document, callerProof) # createVerifyData(document, callerProof)
  /\ /\ VerifyDone /\ FormsDiffer
     /\ Get(callerProof, "jws") = SwappedSignature(document, callerProof)
     => /\ result.value.verified = FALSE
        /\ ~Ran("verifySignature", "true")
        /\ Invoked("verifySignature") /\ ~Ran("verifySignature", "throw") =>
             result.value.error = "Invalid signature."

\* C9 witness: a signature over the swapped-order bytes, by the right key,
\* was rejected as invalid
C9_Witness ==
  /\ VerifyDone /\ FormsDiffer
  /\ tampered = "jws"
  /\ Get(callerProof, "jws") = SwappedSignature(document, callerProof)
  /\ method = Node(SignerKey, "active")
  /\ result.value = [verified |-> FALSE, error |-> "Invalid signature."]

\* the constructor was given a date, and whether Date can parse it
DateSupplied == ctorArgs.date # Undefined
DateParses == ~IsNaN(NewDate(ctorArgs.date))

\* the constructor's check of verificationMethod (lines 66-69) passes
MethodAccepted ==
  ctorArgs.verificationMethod = Undefined \/ TypeOf(ctorArgs.verificationMethod) = "string"

\* C10: constructing a suite with a supplied date that does not parse fails
\* with an error, no suite exists and no collaborator has been invoked; a
\* supplied date that parses is stored, and the construction succeeds.
C10_DateValidation ==
  pc # "new" /\ DateSupplied =>
    IF DateParses
    THEN MethodAccepted =>
           /\ pc # "ctorFailed" /\ ctorError = ""
           /\ suite.date = NewDate(ctorArgs.date)
           /\ ~IsNaN(suite.date)
    ELSE /\ pc = "ctorFailed" /\ ctorError # ""
         /\ MethodAccepted => ctorError = "TypeError: \"date\" is not a valid date."
         /\ suite = NoSuite
         /\ calls = <<>> /\ result = NoResult

\* C10 witness: the constructor was given an unparsable date and threw
C10_Witness ==
  /\ pc = "ctorFailed"
  /\ ctorArgs.date = Str("not a date")
  /\ MethodAccepted
  /\ ctorError = "TypeError: \"date\" is not a valid date."

\* the value is a string, or was not supplied
StringOrAbsent(x) == x = Undefined \/ TypeOf(x) = "string"

\* C11: constructing a suite with a supplied verificationMethod or a
\* supplied creator that is not a string fails with an error, so no
\* constructed suite holds a non-string identity value.
C11_NonStringIdentityRejected ==
  /\ /\ pc # "new"
     /\ ~(StringOrAbsent(ctorArgs.verificationMethod) /\ StringOrAbsent(ctorArgs.creator))
     => pc = "ctorFailed" /\ ctorError # ""
  /\ pc \notin {"new", "ctorFailed"} =>
       StringOrAbsent(suite.verificationMethod) /\ StringOrAbsent(suite.creator)

\* createProof has stamped the proof (lines 106-130 are behind it)
StampDone == op = "create" /\ (pc = "c_update" \/ Invoked("updateProof"))

\* the proof template of the suite, as an object
Template == IF suite.proof = Undefined THEN EmptyObject ELSE suite.proof

\* C12: the created value of a stamped proof is the configured date when one
\* was given (whatever the template holds), else the template's created when
\* it has one, else the current time; the clock is read only in the last
\* case.
C12_CreatedPrecedence ==
  StampDone =>
    /\ suite.date # Undefined =>
         /\ Get(proof, "created") = w3cDate(suite.date)
         /\ ~Invoked("Date")
    /\ suite.date = Undefined /\ Get(Template, "created") # Undefined =>
         /\ Get(proof, "created") = Get(Template, "created")
         /\ ~Invoked("Date")
    /\ suite.date = Undefined /\ Get(Template, "created") = Undefined =>
         /\ Ran("Date", "ok")
         /\ \E clock \in ClockReadings :
              Get(proof, "created") = w3cDate(DateObj(clock))

\* a configured date has overridden the created value of the template
C12_Witness ==
  /\ StampDone
  /\ suite.date # Undefined
  /\ Get(Template, "created") # Undefined
  /\ Get(proof, "created") = w3cDate(suite.date)
  /\ Get(proof, "created") # Get(Template, "created")

\* the error with which a failing step of createProof fails
CreateError(fn) == IF fn = "canonize" THEN "jsonld.canonize failed" ELSE fn \o " failed"

\* C13: createProof returns no partial proof: when template compaction, the
\* updateProof hook, purpose.update, createVerifyData or sign fails, the call
\* fails with that error, no proof is returned and no later step runs; a
\* proof is returned only when every step succeeded.
C13_NoPartialProof ==
  op = "create" =>
    /\ \A i \in 1..Len(calls) :
         calls[i].out = "throw" =>
           /\ i = Len(calls)
           /\ pc = "createFailed"
           /\ result = Thrown(CreateError(calls[i].fn))
    /\ pc = "createFailed" =>
         /\ calls # <<>> /\ calls[Len(calls)].out = "throw"
         /\ callerProof = NoObject
    /\ result.kind = "return" =>
         /\ pc = "held"
         /\ Ran("sign", "ok")
         /\ result = Returned(proof)

\* sign failed on a complete unsigned proof: nothing was returned
C13_Witness ==
  /\ op = "create" /\ pc = "createFailed"
  /\ Ran("purpose.update", "ok") /\ Ran("sign", "throw")
  /\ Get(proof, "proofPurpose") # Undefined
  /\ result = Thrown("sign failed")
  /\ callerProof = NoObject

\* an identity value that names nothing: absent, null, empty, or an object
\* without id
Unusable(x) == Falsy(x) \/ (TypeOf(x) = "object" /\ x # Null /\ Falsy(IdOf(x)))

NoIdentity(p) ==
  Unusable(Get(p, "verificationMethod")) /\ Unusable(Get(p, "creator"))

\* C14: when the proof has neither a usable verificationMethod nor a usable
\* creator, getVerificationMethod fails with 'No "verificationMethod" or
\* "creator" found in proof.' without calling the resolver and verifyProof
\* returns {verified: false} with that error; when the resolver yields no
\* node for the identifier, it fails with the not-found error that names the
\* identifier.
C14_NoIdentityError ==
  /\ MethodStepEnded /\ NoIdentity(callerProof) =>
       /\ ~Invoked("jsonld.frame")
       /\ VerifyDone
       /\ result = VerifyCatch("No \"verificationMethod\" or \"creator\" found in proof.")
  /\ MethodStepEnded /\ ~NoIdentity(callerProof)
       /\ Ran("jsonld.frame", "ok") /\ calls[3].arg = NoNode =>
       /\ VerifyDone
       /\ result = VerifyCatch("Verification method "
                               \o ProofIdentifier(callerProof).value.v \o " not found.")

\* the names of the collaborator calls of the running call, in order
CallNames == [i \in 1..Len(calls) |-> calls[i].fn]

IsPrefix(a, b) == Len(a) <= Len(b) /\ \A i \in 1..Len(a) : a[i] = b[i]

\* the position of the call of fn in the log (0: not called)
CallOf(fn) ==
  IF Invoked(fn) THEN CHOOSE i \in 1..Len(calls) : calls[i].fn = fn ELSE 0

\* the base proof of lines 95-104
BaseProof == Put(Template, "@context", SECURITY_CONTEXT_URL)

\* the awaited calls of a createProof that runs to its end, in the order of
\* lines 95-149
CreateOrder ==
  (IF suite.proof # Undefined THEN <<"jsonld.compact">> ELSE <<>>)
  \o (IF ReadsClock(BaseProof, suite) THEN <<"Date">> ELSE <<>>)
  \o <<"updateProof", "purpose.update", "canonize", "canonize", "sign">>

\* C15: the steps of createProof run once each and in the fixed order base
\* proof, stamps (type, created, identity), updateProof hook, purpose.update,
\* createVerifyData, sign: the hook is given the stamped base proof,
\* purpose.update is given what the hook returned, and the data that is
\* signed is computed over the proof as purpose.update returned it.
C15_CreateOrder ==
  op = "create" =>
    /\ IsPrefix(CallNames, CreateOrder)
    /\ pc = "held" => CallNames = CreateOrder
    /\ Invoked("updateProof") =>
         /\ \E clock \in ClockReadings \cup {0} :
              calls[CallOf("updateProof")].arg = Stamped(BaseProof, suite, clock)
         /\ calls[CallOf("updateProof")].arg["type"] = suite.type
    /\ Invoked("purpose.update") =>
         calls[CallOf("purpose.update")].arg
           = updateProof(calls[CallOf("updateProof")].arg)
    /\ Invoked("canonize") =>
         calls[CallOf("canonize")].arg
           = ProofOptions(PurposeUpdate(calls[CallOf("purpose.update")].arg))
    /\ Invoked("sign") =>
         LET updated == PurposeUpdate(calls[CallOf("purpose.update")].arg)
             signed == calls[CallOf("sign")].arg
         IN  /\ signed = updated
             /\ verifyData = createVerifyData(calls[CallOf("sign") - 1].arg, updated)
             /\ pc = "held" => proof = SignProof(verifyData, updated)

\* a createProof that read the clock ran every step, once, to its end
C15_Witness ==
  /\ op = "create" /\ pc = "held"
  /\ CallNames = <<"Date", "updateProof", "purpose.update", "canonize", "canonize", "sign">>
  /\ Get(proof, "proofPurpose") # Undefined
  /\ Get(proof, "jws") # Undefined

\* the awaited calls of a verifyProof that runs to its end, in the order of
\* lines 183-201 (jsonld.frame is the call of getVerificationMethod)
VerifyOrder ==
  <<"canonize", "canonize", "jsonld.frame", "verifySignature", "purpose.validate">>

\* the outcomes of a call with which the step fails
FailingOutcomes == {"throw", "false", "undefined", "invalid"}

\* the error of a step that failed with that outcome
VerifyError(fn, out) ==
  CASE fn = "canonize" -> "jsonld.canonize failed"
    [] fn = "jsonld.frame" -> "documentLoader failed"
    [] fn = "verifySignature" ->
         IF out = "throw" THEN "verifySignature failed" ELSE "Invalid signature."
    [] OTHER -> Validated(out).value.error

\* C16: the steps of verifyProof run in the order createVerifyData,
\* getVerificationMethod, verifySignature, purpose.validate, each at most
\* once; the first failing step ends the call, no later step is invoked and
\* the returned error is that failure; purpose.validate is invoked only after
\* verifySignature answered true; a negative judgment of the purpose gives
\* {verified: false} with the error of the purpose result.
C16_VerifyOrder ==
  op = "verify" =>
    /\ IsPrefix(CallNames, VerifyOrder)
    /\ \A i \in 1..Len(calls) :
         calls[i].out \in FailingOutcomes =>
           /\ i = Len(calls)
           /\ pc = "done"
           /\ result = VerifyCatch(VerifyError(calls[i].fn, calls[i].out))
    /\ pc = "done" /\ calls[Len(calls)].out \notin FailingOutcomes =>
         \/ /\ Len(calls) \in {2, 3}
            /\ getVerificationMethod(callerProof, resolver).kind = "throw"
            /\ result = VerifyCatch(getVerificationMethod(callerProof, resolver).error)
         \/ /\ CallNames = VerifyOrder
            /\ result.value.verified
    /\ Invoked("verifySignature") =>
         /\ Ran("jsonld.frame", "ok")
         /\ method = getVerificationMethod(callerProof, resolver).value
    /\ Invoked("purpose.validate") => Ran("verifySignature", "true")
    /\ Ran("purpose.validate", "invalid") =>
         result = Returned([verified |-> FALSE, error |-> PurposeResult("invalid").error])

\* every step ran and the purpose judged the proof invalid
C16_Witness ==
  /\ VerifyDone
  /\ CallNames = VerifyOrder
  /\ Ran("verifySignature", "true") /\ Ran("purpose.validate", "invalid")
  /\ result = Returned([verified |-> FALSE, error |-> PurposeResult("invalid").error])

\* x is a string in the format of w3cDate
IsW3cFormat(x) == x.t = "string" /\ x.v \in ParsableDates

\* C17 as stated: the created value of a stamped proof is in the format of
\* w3cDate whichever source it comes from.
C17_CreatedAlwaysFormatted ==
  StampDone => IsW3cFormat(Get(proof, "created"))

\* C17 amended: the created value of a stamped proof is in the format of
\* w3cDate when it comes from the configured date or from the clock; a
\* created of the template, used when no date is configured, is stored as it
\* is.
C17_CreatedFormat ==
  StampDone =>
    /\ suite.date # Undefined \/ Get(Template, "created") = Undefined =>
         IsW3cFormat(Get(proof, "created"))
    /\ suite.date = Undefined /\ Get(Template, "created") # Undefined =>
         Get(proof, "created") = Get(Template, "created")

\* the clock was read between two whole seconds and the proof holds the
\* formatted reading
C17_Witness ==
  /\ StampDone
  /\ Ran("Date", "ok")
  /\ IsW3cFormat(Get(proof, "created"))
  /\ \E clock \in ClockReadings :
       /\ clock % 1000 # 0
       /\ Get(proof, "created") = w3cDate(DateObj(clock))

\* the objects agree on every field but f
SameBut(f, a, b) ==
  /\ DOMAIN a \ {f} = DOMAIN b \ {f}
  /\ \A g \in DOMAIN a \ {f} : a[g] = b[g]

\* C19: verifyProof and createVerifyData leave the proof they are given
\* unchanged: during and after a verifyProof, failed or not, the caller's
\* proof is the proof the caller handed in (the created proof, with the one
\* field the caller changed before the call), signature-bearing fields
\* included, while the object given to the canonicalizer is a copy without
\* them; in createProof the proof given to sign is the proof createVerifyData
\* was given.
C19_ProofUnchanged ==
  /\ op = "verify" =>
       /\ tampered \in {"no", "document"} => callerProof = proof
       /\ tampered \notin {"no", "document"} => SameBut(tampered, callerProof, proof)
       /\ calls[1].arg = ProofOptions(callerProof)
       /\ \A i \in 1..Len(calls) :
            calls[i].fn \in {"verifySignature", "purpose.validate"} =>
              calls[i].arg = callerProof
  /\ op = "create" /\ Invoked("sign") =>
       /\ calls[CallOf("canonize")].arg = ProofOptions(calls[CallOf("sign")].arg)
       /\ calls[CallOf("sign")].arg = PurposeUpdate(calls[CallOf("purpose.update")].arg)

\* a verifyProof failed on an untouched created proof: the caller's proof
\* still carries its jws, the canonicalized copy does not
C19_Witness ==
  /\ VerifyDone /\ tampered = "no"
  /\ ~result.value.verified
  /\ callerProof = proof
  /\ Get(callerProof, "jws") # Undefined
  /\ "jws" \notin DOMAIN calls[1].arg

\* C20: a stamped proof has the type of the suite, whatever type the
\* template carries; each of verificationMethod and creator holds the
\* configured value when one is configured (both may be), and the value of
\* the template, if any, when it is not.
C20_TypeAndIdentityStamps ==
  StampDone =>
    /\ suite.type = SuiteType
    /\ Get(proof, "type") = suite.type
    /\ \A f \in IdentityFields :
         Get(proof, f) = IF suite[f] # Undefined THEN suite[f] ELSE Get(Template, f)

\* the template's type was overwritten, its verificationMethod was kept as
\* none is configured, and the configured creator was written next to it
C20_Witness ==
  /\ StampDone
  /\ Get(Template, "type") \notin {Undefined, suite.type}
  /\ Get(proof, "type") = suite.type
  /\ suite.verificationMethod = Undefined
  /\ Get(Template, "verificationMethod") # Undefined
  /\ Get(proof, "verificationMethod") = Get(Template, "verificationMethod")
  /\ suite.creator # Undefined
  /\ Get(proof, "creator") = suite.creator

\* the suite as the constructor left it
Constructed == Constructor(ctorArgs).value

\* the readings of the clock a createProof on that suite may get (0: the
\* clock is not read)
ClockOf(this) ==
  IF ReadsClock(BaseProofOf(this), this) THEN ClockReadings ELSE {0}

\* the proof createProof returns when it runs alone on the suite and every
\* collaborator answers
CreateProofAlone(this, d, clock) ==
  LET p == PurposeUpdate(updateProof(Stamped(BaseProofOf(this), this, clock)))
  IN  SignProof(createVerifyData(d, p), p)

\* what verifyProof returns when it runs alone and every collaborator answers
VerifyProofAlone(p, d, res) ==
  LET data == createVerifyData(d, p)
      got == getVerificationMethod(p, res)
  IN  IF got.kind = "throw" THEN VerifyCatch(got.error)
      ELSE IF ~SignatureVerifies(data, got.value, p)
      THEN VerifyCatch("Invalid signature.")
      ELSE Validated("valid")

\* C18: createProof and verifyProof never change the configuration of the
\* suite: whatever the interleaving of the two callers' calls, the suite
\* equals what the constructor stored, and each call returns what it returns
\* when it runs alone on that suite (the proof of createProof for its own
\* document and clock reading, the answer of verifyProof for its own proof
\* and document).
C18_CallsIndependent ==
  pc \notin {"new", "ctorFailed"} =>
    /\ suite = Constructed
    /\ other.pc = "returned" =>
         \E clock \in ClockOf(Constructed) :
           other.result = Returned(CreateProofAlone(Constructed, other.document, clock))
    /\ HoldsProof =>
         \E clock \in ClockOf(Constructed) :
           callerProof = CreateProofAlone(Constructed, document, clock)
    /\ op = "create" /\ pc = "held" => result = Returned(callerProof)
    /\ VerifyDone /\ CollaboratorsBehave =>
         result = VerifyProofAlone(callerProof, document, resolver)

\* the second caller's createProof began while the first caller's createProof
\* was between two awaits and is still running while the first caller's
\* verifyProof is between two awaits; the first caller's proof is what a call
\* alone returns
C18_Witness ==
  /\ other.during \in {"c_stamp", "c_update", "c_purpose", "c_data", "c_sign"}
  /\ other.pc \in {"c_update", "c_purpose", "c_data", "c_sign"}
  /\ other.document # document
  /\ op = "verify" /\ pc \in {"v_method", "v_sig", "v_purpose"}
  /\ suite = Constructed
  /\ \E clock \in ClockOf(Constructed) :
       callerProof = CreateProofAlone(Constructed, document, clock)

====
